---------------------------- MODULE Spec2Model ----------------------------
(***************************************************************************)
(* A model of the smart_query orchestration engine (LLMDataSystem): the    *)
(* planner's collapse pass (get_request_plan / find_and_remove_consecutive)*)
(* and the plan executor (process_request / execute_aggregation_plan)      *)
(* working on the data repository.  Every decision the code delegates to   *)
(* the language model (classification, planning, semantic lookup) and      *)
(* every retriever outcome is a nondeterministic choice.                   *)
(***************************************************************************)
EXTENDS Integers, Sequences, FiniteSets, TLC

VARIABLES
    dataframe_retrievers,  \* LLMDataSystem.dataframe_retrievers: <<[name, join_query_compatible]>>
    text_retrievers,       \* LLMDataSystem.text_retrievers: <<name>>
    objs,                  \* every DataFrameAnnotation created so far, by identity (index = id)
    store,                 \* DataRepository.dataframe_annotations: sequence of object ids
    stack,                 \* the active process_request calls, outermost first
    nreq,                  \* number of top-level process_request calls made so far
    oracle_plan,           \* get_request_plan: the plan as the language model returned it
    json_result,           \* get_request_plan: the plan it returns
    ppc,                   \* get_request_plan: "idle" or "returned"
    rpc,                   \* WENOKNRetriever.get_dataframe_annotation: where the call is
    tried,                 \* its local variable tried
    rlog,                  \* the attempts of its retry loop so far
    rresult,               \* what the call gave its caller
    retriever,             \* the class whose get_dataframe_annotation was called
    now,                   \* datetime.now(), in seconds
    created_at,            \* DataFrameAnnotation.created_at of the annotations, by id
    last_op,               \* the DataRepository call just made, its argument and outcome
    tool_call,             \* server.py: the tool called last, its arguments, the endpoint's response
    tool_result,           \* server.py: what that call gave its caller
    collapse,              \* find_and_remove_consecutive: the arguments and results of a call
    unwrap                 \* the fence stripping: the text given and the texts returned

vars == <<dataframe_retrievers, text_retrievers, objs, store, stack, nreq,
          oracle_plan, json_result, ppc, rpc, tried, rlog, rresult, retriever,
          now, created_at, last_op, tool_call, tool_result, collapse, unwrap>>

executorVars == <<objs, store, stack, nreq>>
plannerVars == <<oracle_plan, json_result, ppc>>
registryVars == <<dataframe_retrievers, text_retrievers>>
retrieverVars == <<rpc, tried, rlog, rresult, retriever>>
\* the components that process_request and get_request_plan do not touch in this model
repositoryVars == <<now, created_at, last_op>>
serverVars == <<tool_call, tool_result>>
utilityVars == <<collapse, unwrap>>
componentVars == <<retrieverVars, repositoryVars, serverVars, utilityVars>>

-----------------------------------------------------------------------------
(* Bounds of the model *)

\* longest linear plan the planning oracle returns
MaxPlanLen == 2
\* deepest nesting of process_request calls (aggregation re-enters process_request);
\* a call nested deeper raises, as the interpreter's recursion limit makes it
MaxDepth == 2
\* number of top-level process_request calls
MaxRequests == 2
\* number of DataFrameAnnotation objects constructed for the repository operations
MaxAnnotations == 3
\* latest second the clock reaches, and largest age_seconds passed to an eviction
MaxTime == 3
\* most dataset records in a response of the search endpoint, and largest top_k
MaxRecords == 2
\* largest index the semantic-find oracle answers (it also answers negatives and non-numbers)
MaxFind == 0
\* longest plan fed to get_request_plan's collapse
MaxRawPlanLen == 3
\* longest query_plan the aggregation-planning oracle returns
MaxAggPlanLen == 3

-----------------------------------------------------------------------------
(* Plans *)

Origins == {"User", "System"}

\* names a plan step may carry: the registered retrievers, "Other" and "System"
DataSources == {"A", "B", "T", "Other", "System"}

\* a request text: an opaque token, possibly extended with the bounding box of a result
Text(k) == [base |-> k, bbox |-> 0]

\* names in the plans process_request is run on: process_request tells a dataframe
\* retriever ("A") from a text retriever ("T") from no retriever ("Other") and no more
ExecutorSources == {"A", "T", "Other"}

PlansOfLen(n, sources) ==
    { [k \in 1..n |-> [request |-> Text(k), data_source |-> f[k][1], origin |-> f[k][2]]] :
        f \in [1..n -> sources \X Origins] }

PlansUpTo(n, sources) == UNION { PlansOfLen(m, sources) : m \in 0..n }

RemoveAt(s, i) == SubSeq(s, 1, i - 1) \o SubSeq(s, i + 1, Len(s))

SetMin(S) == CHOOSE x \in S : \A y \in S : x <= y

\* a scan that deletes steps whatever their origin
Deletable_any_origin(data, data_source) ==
    { i \in 1..(Len(data) - 1) :
        /\ data[i].data_source = data_source
        /\ data[i + 1].data_source = data_source }

\* a scan that starts at the second step
Deletable_from_second(data, data_source) ==
    { i \in 2..(Len(data) - 1) :
        /\ data[i].data_source = data_source
        /\ data[i].origin = "System"
        /\ data[i + 1].data_source = data_source }

\* the first index at which find_and_remove_consecutive deletes (0-based range(0, len-1) is 1..Len-1 here)
Deletable(data, data_source) ==
    { i \in 1..(Len(data) - 1) :
        /\ data[i].data_source = data_source
        /\ data[i].origin = "System"
        /\ data[i + 1].data_source = data_source }

\* a collapse that deletes the first redundant step only and does not start over
find_and_remove_first_only(data, data_source) ==
    IF Deletable(data, data_source) = {} THEN data
    ELSE RemoveAt(data, SetMin(Deletable(data, data_source)))

RECURSIVE find_and_remove_consecutive(_, _)
find_and_remove_consecutive(data, data_source) ==
    IF Deletable(data, data_source) = {} THEN data
    ELSE find_and_remove_consecutive(RemoveAt(data, SetMin(Deletable(data, data_source))), data_source)

\* the loop of get_request_plan over self.dataframe_retrievers, from retriever k on
RECURSIVE CollapseFrom(_, _, _)
CollapseFrom(plan, retrievers, k) ==
    IF k > Len(retrievers) THEN plan
    ELSE IF retrievers[k].join_query_compatible
         THEN CollapseFrom(find_and_remove_consecutive(plan, retrievers[k].name), retrievers, k + 1)
         ELSE CollapseFrom(plan, retrievers, k + 1)

\* get_request_plan: the oracle's plan after the post-pass
GetRequestPlanResult(plan, retrievers) == CollapseFrom(plan, retrievers, 1)

JoinCompatibleNames(retrievers) ==
    { retrievers[k].name : k \in { j \in 1..Len(retrievers) : retrievers[j].join_query_compatible } }

-----------------------------------------------------------------------------
(* The retriever registry *)

\* the registry as data_system_test.py builds it: one join-compatible dataframe
\* retriever, one that is not, one text retriever
TestDataframeRetrievers ==
    << [name |-> "A", join_query_compatible |-> TRUE],
       [name |-> "B", join_query_compatible |-> FALSE] >>

TestTextRetrievers == << "T" >>

\* LLMDataSystem.get_retriever: "dataframe", "text" or "none" (the code returns None)
get_retriever(name) ==
    IF \E k \in 1..Len(dataframe_retrievers) : dataframe_retrievers[k].name = name
    THEN "dataframe"
    ELSE IF \E k \in 1..Len(text_retrievers) : text_retrievers[k] = name
         THEN "text"
         ELSE "none"

-----------------------------------------------------------------------------
(* The components before any call *)

NoResult == [kind |-> "pending", error |-> "none"]

IdleRetriever ==
    /\ rpc = "idle"
    /\ tried = 0
    /\ rlog = <<>>
    /\ rresult = NoResult
    /\ retriever = "none"

NoOp == [name |-> "none", arg |-> 0, before |-> <<>>, raised |-> FALSE]

IdleRepository ==
    /\ now = 0
    /\ created_at = <<>>
    /\ last_op = NoOp

NoCall == [tool |-> "none", response |-> "none", records |-> <<>>, top_k |-> 0,
           timeout |-> 0, sent_timeout |-> 0]

NoToolResult == [kind |-> "pending", success |-> "absent", payload |-> FALSE, error |-> FALSE]

IdleServer ==
    /\ tool_call = NoCall
    /\ tool_result = NoToolResult

NoCollapse == [called |-> FALSE]

NoUnwrap == [called |-> FALSE]

IdleUtilities ==
    /\ collapse = NoCollapse
    /\ unwrap = NoUnwrap

IdleComponents == IdleRetriever /\ IdleRepository /\ IdleServer /\ IdleUtilities

-----------------------------------------------------------------------------
(* get_request_plan *)

NoFrame ==
    [pc |-> "none", request |-> Text(0), plan |-> <<>>, index |-> 0, dfa |-> 0,
     aggregation_plan |-> <<>>, grouping_adf |-> 0, summarizing_adf |-> 0,
     store0 |-> <<>>, log |-> <<>>, kind |-> "unclassified"]

InitPlanner ==
    /\ dataframe_retrievers \in
          { << [name |-> "A", join_query_compatible |-> ja],
               [name |-> "B", join_query_compatible |-> jb] >> : ja, jb \in BOOLEAN }
    /\ text_retrievers = TestTextRetrievers
    /\ objs = <<>>
    /\ store = <<>>
    /\ stack = <<>>
    /\ nreq = 0
    /\ oracle_plan = <<>>
    /\ json_result = <<>>
    /\ ppc = "idle"
    /\ IdleComponents

\* one call of get_request_plan: the oracle answers with any plan, the loop collapses it
GetRequestPlan ==
    /\ ppc = "idle"
    /\ \E raw \in PlansUpTo(MaxRawPlanLen, DataSources) :
          /\ oracle_plan' = raw
          /\ json_result' = GetRequestPlanResult(raw, dataframe_retrievers)
    /\ ppc' = "returned"
    /\ UNCHANGED <<registryVars, executorVars, componentVars>>

NextPlanner == GetRequestPlan

SpecPlanner == InitPlanner /\ [][NextPlanner]_vars

-----------------------------------------------------------------------------
(* DataFrameAnnotation and DataRepository *)

\* DataFrameAnnotation.__init__: creator defaults to 'User'; every retriever and
\* execute_aggregation_plan construct with the default
NewAnnotation(isEmpty) == [creator |-> "User", empty |-> isEmpty, title |-> "title"]

\* what a caller may pass as df and as title to DataFrameAnnotation(df, title)
DfArguments == {"DataFrame", "GeoDataFrame", "None"}
TitleArguments == {"title", "", "None"}

\* a constructor that checks df only
InitRaises_df_only(df, title) == df = "None"

\* DataFrameAnnotation.__init__, lines 10-13: the two checks that raise ValueError
InitRaises(df, title) == df = "None" \/ title \in {"", "None"}

\* line 688: the title execute_aggregation_plan gives the summarizing result, from the
\* texts of the summarizing and the grouping request
RewrittenTitle(summarizing_object_request, grouping_object_request) ==
    summarizing_object_request \o " intersects with the bounding box of "
        \o grouping_object_request

\* an add that drops the annotation
add_nothing(st, id) == st

\* an add that puts the annotation in front
add_at_front(st, id) == <<id>> \o st

\* an add that overwrites the last entry
add_over_last(st, id) == IF st = <<>> THEN <<id>> ELSE [st EXCEPT ![Len(st)] = id]

\* DataRepository.add_dataframe_annotation
add_dataframe_annotation(st, id) == Append(st, id)

\* what the semantic-find oracle may answer: a string that int() parses, or one it does not
FindAnswers ==
    { [numeric |-> FALSE, value |-> 0] } \cup
    { [numeric |-> TRUE, value |-> v] : v \in (0 - MaxFind - 1)..MaxFind }

\* self.data_repo.dataframe_annotations[int(index)]: Python list indexing, where a
\* negative index counts from the end; 0 stands for the ValueError / IndexError
ListItem(st, ans) ==
    IF ~ans.numeric THEN 0
    ELSE IF ans.value >= 0 /\ ans.value < Len(st) THEN st[ans.value + 1]
    ELSE IF ans.value < 0 /\ 0 - ans.value <= Len(st) THEN st[Len(st) + ans.value + 1]
    ELSE 0

-----------------------------------------------------------------------------
(* process_request and execute_aggregation_plan *)

Top == stack[Len(stack)]

Frame(req) ==
    [NoFrame EXCEPT !.pc = "classify", !.request = req, !.store0 = store]

Push(parent, child) == SubSeq(stack, 1, Len(stack) - 1) \o <<parent, child>>

SetTop(f) == SubSeq(stack, 1, Len(stack) - 1) \o <<f>>

LogEntry(kind, i, out, ans, res, arg, findArg) ==
    [kind |-> kind, i |-> i, out |-> out, ans |-> ans, res |-> res, arg |-> arg,
     findArg |-> findArg]

NoAnswer == [numeric |-> FALSE, value |-> 0]

\* pc after step i of the for loop: the loop ends after the last step
NextPc(plan, i) == IF i > Len(plan) THEN "return" ELSE "loop"

\* the aggregation plan the oracle answers with: n steps, of which only "request" is read
AggregationPlan(n) ==
    [k \in 1..n |-> [request |-> Text(k),
                     data_source |-> IF k = 3 THEN "System" ELSE "A"]]

\* the creator a fetched result of step i gets (line 754: index < len(plan) - 1)
CreatorForStep(plan, i) == IF i < Len(plan) THEN "System" ELSE "User"

\* a loop that goes on with an empty result as with any other
StepOutcome_empty_continues(out) == IF out \in {"ok", "empty"} THEN "continue" ELSE "raise"

\* a loop that skips a step whose retriever returned None
StepOutcome_none_continues(out) == IF out \in {"ok", "none"} THEN "continue" ELSE "raise"

\* lines 751-753: what becomes of the step after retriever.get_dataframe_annotation:
\* its exception propagates, None raises at dfa.df, an empty table raises Exception
StepOutcome(out) == IF out = "ok" THEN "continue" ELSE "raise"

\* a cache hit that adds the reused annotation to the repository once more
HitStore_adds_again(st, found) == IF found = 0 THEN st ELSE Append(st, found)

\* lines 747-749: the repository after the cache-hit branch, which adds nothing
HitStore(st, found) == st

\* a summarizing request passed on as the oracle wrote it
optimized_request_unscoped(summarizing_object_request, grouping_adf) ==
    summarizing_object_request

\* line 684: the summarizing request, extended with the grouping result's bounding box
optimized_summarizing_object_request(summarizing_object_request, grouping_adf) ==
    [summarizing_object_request EXCEPT !.bbox = grouping_adf]

Init ==
    /\ dataframe_retrievers = TestDataframeRetrievers
    /\ text_retrievers = TestTextRetrievers
    /\ objs = <<>>
    /\ store = <<>>
    /\ stack = <<>>
    /\ nreq = 0
    /\ oracle_plan = <<>>
    /\ json_result = <<>>
    /\ ppc = "idle"
    /\ IdleComponents

\* a caller invokes process_request(request)
Request ==
    /\ stack = <<>>
    /\ nreq < MaxRequests
    /\ nreq' = nreq + 1
    /\ stack' = <<Frame(Text(0))>>
    /\ UNCHANGED <<registryVars, plannerVars, componentVars, objs, store>>

\* line 724: check_aggregation_query; the oracle's JSON may fail to parse
CheckAggregationQuery ==
    /\ stack # <<>>
    /\ Top.pc = "classify"
    /\ \E answer \in {"true", "false", "error"} :
          /\ stack' = SetTop([Top EXCEPT
                !.pc = CASE answer = "true" -> "aggplan"
                         [] answer = "false" -> "plan"
                         [] OTHER -> "raise",
                !.kind = CASE answer = "true" -> "aggregation"
                           [] answer = "false" -> "linear"
                           [] OTHER -> @])
    /\ UNCHANGED <<registryVars, plannerVars, componentVars, objs, store, nreq>>

\* line 737: plan = self.get_query_plan(request), the oracle's plan as it is
GetQueryPlan ==
    /\ stack # <<>>
    /\ Top.pc = "plan"
    /\ \/ \E plan \in PlansUpTo(MaxPlanLen, ExecutorSources) :
             stack' = SetTop([Top EXCEPT !.plan = plan, !.index = 1,
                                         !.pc = NextPc(plan, 1)])
       \/ stack' = SetTop([Top EXCEPT !.pc = "raise"])
    /\ UNCHANGED <<registryVars, plannerVars, componentVars, objs, store, nreq>>

\* lines 744-746: no retriever of that name, or a TextRetriever: the step does nothing
StepSkip ==
    /\ stack # <<>>
    /\ Top.pc = "loop"
    /\ LET i == Top.index
           step == Top.plan[i]
       IN /\ get_retriever(step.data_source) # "dataframe"
          /\ stack' = SetTop([Top EXCEPT
                !.index = i + 1,
                !.pc = NextPc(Top.plan, i + 1),
                !.log = Append(@, LogEntry("skip", i, "ok", NoAnswer, 0,
                                           step.request, Text(0)))])
    /\ UNCHANGED <<registryVars, plannerVars, componentVars, objs, store, nreq>>

\* lines 747-749: contain_dataframe_annotation answered True; the index comes from
\* get_dataframe_annotation(request), asked about the whole request
StepHit ==
    /\ stack # <<>>
    /\ Top.pc = "loop"
    /\ LET i == Top.index
           step == Top.plan[i]
       IN /\ get_retriever(step.data_source) = "dataframe"
          /\ \E ans \in FindAnswers :
                LET found == ListItem(store, ans)
                IN /\ store' = HitStore(store, found)
                   /\ stack' = SetTop([Top EXCEPT
                         !.index = IF found = 0 THEN i ELSE i + 1,
                         !.dfa = IF found = 0 THEN @ ELSE found,
                         !.pc = IF found = 0 THEN "raise" ELSE NextPc(Top.plan, i + 1),
                         !.log = Append(@, LogEntry("hit", i,
                                                    IF found = 0 THEN "raise" ELSE "ok",
                                                    ans, found, step.request, Top.request))])
    /\ UNCHANGED <<registryVars, plannerVars, componentVars, objs, nreq>>

\* lines 750-756: contain_dataframe_annotation answered False: the retriever is invoked.
\* It raises, returns None, or wraps an empty table or a non-empty one with the title the
\* oracle wrote, which raises ValueError if DataFrameAnnotation refuses the title.
StepFetch ==
    /\ stack # <<>>
    /\ Top.pc = "loop"
    /\ LET i == Top.index
           step == Top.plan[i]
           id == Len(objs) + 1
       IN /\ get_retriever(step.data_source) = "dataframe"
          /\ \E result \in {"raise", "none", "empty", "ok"}, title \in TitleArguments :
                LET out == IF result \in {"empty", "ok"} /\ InitRaises("GeoDataFrame", title)
                           THEN "raise" ELSE result
                    created == out \in {"empty", "ok"}
                    goes_on == StepOutcome(out) = "continue"
                IN /\ objs' = IF created
                              THEN Append(objs, [NewAnnotation(out = "empty") EXCEPT
                                      !.title = title,
                                      !.creator = IF goes_on THEN CreatorForStep(Top.plan, i)
                                                  ELSE @])
                              ELSE objs
                   /\ store' = IF created /\ goes_on
                               THEN add_dataframe_annotation(store, id) ELSE store
                   /\ stack' = SetTop([Top EXCEPT
                         !.index = IF goes_on THEN i + 1 ELSE i,
                         !.dfa = IF created THEN id ELSE IF out = "none" THEN 0 ELSE @,
                         !.pc = IF goes_on THEN NextPc(Top.plan, i + 1) ELSE "raise",
                         !.log = Append(@, LogEntry("fetch", i, out, NoAnswer,
                                                    IF created THEN id ELSE 0,
                                                    step.request, Text(0)))])
    /\ UNCHANGED <<registryVars, plannerVars, componentVars, nreq>>

\* line 727: get_aggregation_plan; the oracle answers with a query_plan of any length
GetAggregationPlan ==
    /\ stack # <<>>
    /\ Top.pc = "aggplan"
    /\ \/ \E n \in 0..MaxAggPlanLen :
             stack' = SetTop([Top EXCEPT !.aggregation_plan = AggregationPlan(n),
                                         !.pc = "grouping"])
       \/ stack' = SetTop([Top EXCEPT !.pc = "raise"])
    /\ UNCHANGED <<registryVars, plannerVars, componentVars, objs, store, nreq>>

\* lines 665-670: query_plan[0] is read and the grouping sub-request dispatched; the
\* call raises RecursionError when the nesting has reached the recursion limit
ExecuteGrouping ==
    /\ stack # <<>>
    /\ Top.pc = "grouping"
    /\ LET qp == Top.aggregation_plan
       IN IF Len(qp) < 1 \/ Len(stack) >= MaxDepth
          THEN stack' = SetTop([Top EXCEPT !.pc = "raise"])
          ELSE stack' = Push([Top EXCEPT
                                !.pc = "wait_grouping",
                                !.log = Append(@, LogEntry("grouping", 1, "ok", NoAnswer, 0,
                                                           qp[1].request, Text(0)))],
                             Frame(qp[1].request))
    /\ UNCHANGED <<registryVars, plannerVars, componentVars, objs, store, nreq>>

\* lines 673-687: query_plan[1] is read, the bounding box of the grouping result taken
\* (None or a table without geometry raises) and the summarizing sub-request dispatched
ExecuteSummarizing ==
    /\ stack # <<>>
    /\ Top.pc = "summarizing"
    /\ LET qp == Top.aggregation_plan
       IN \E has_bounds \in BOOLEAN :
             IF Len(qp) < 2 \/ Top.grouping_adf = 0 \/ ~has_bounds
             THEN stack' = SetTop([Top EXCEPT !.pc = "raise"])
             ELSE LET req == optimized_summarizing_object_request(qp[2].request,
                                                                  Top.grouping_adf)
                  IN stack' = Push([Top EXCEPT
                                      !.pc = "wait_summarizing",
                                      !.log = Append(@, LogEntry("summarizing", 2, "ok",
                                                                 NoAnswer, 0, req, Text(0)))],
                                   Frame(req))
    /\ UNCHANGED <<registryVars, plannerVars, componentVars, objs, store, nreq>>

\* lines 688-717 and 731-735: the summarizing result is retitled (the two request texts
\* are taken empty, which gives the shortest title the line can produce), query_plan[2]
\* read, the aggregation code synthesized and run, its result wrapped with the title the
\* oracle wrote, marked 'User' and added
ExecuteSynthesis ==
    /\ stack # <<>>
    /\ Top.pc = "synthesis"
    /\ LET qp == Top.aggregation_plan
           s == Top.summarizing_adf
           id == Len(objs) + 1
           retitled == IF s = 0 THEN objs
                       ELSE [objs EXCEPT ![s].title = RewrittenTitle("", "")]
       IN \E out \in {"raise", "empty", "ok"}, title \in TitleArguments :
             IF s = 0 \/ Len(qp) < 3 \/ out = "raise" \/ InitRaises("DataFrame", title)
             THEN /\ objs' = retitled
                  /\ store' = store
                  /\ stack' = SetTop([Top EXCEPT !.pc = "raise"])
             ELSE /\ objs' = Append(retitled,
                                    [NewAnnotation(out = "empty") EXCEPT !.title = title,
                                                                         !.creator = "User"])
                  /\ store' = add_dataframe_annotation(store, id)
                  /\ stack' = SetTop([Top EXCEPT
                        !.dfa = id,
                        !.pc = "return",
                        !.log = Append(@, LogEntry("synthesis", 3, out, NoAnswer, id,
                                                   qp[3].request, Text(0)))])
    /\ UNCHANGED <<registryVars, plannerVars, componentVars, nreq>>

\* a caller that never takes the value its callee returned
Resume_never(parent, ret) == parent

\* the caller's frame after the callee returned value ret
Resume(parent, ret) ==
    IF parent.pc = "wait_grouping"
    THEN [parent EXCEPT !.grouping_adf = ret, !.pc = "summarizing"]
    ELSE [parent EXCEPT !.summarizing_adf = ret, !.pc = "synthesis"]

\* lines 735, 760: return dfa
Return ==
    /\ stack # <<>>
    /\ Top.pc = "return"
    /\ stack' = IF Len(stack) = 1 THEN <<>>
                ELSE SubSeq(stack, 1, Len(stack) - 2) \o
                     <<Resume(stack[Len(stack) - 1], Top.dfa)>>
    /\ UNCHANGED <<registryVars, plannerVars, componentVars, objs, store, nreq>>

\* an exception leaves process_request; nothing in the call chain catches it
Raise ==
    /\ stack # <<>>
    /\ Top.pc = "raise"
    /\ stack' = IF Len(stack) = 1 THEN <<>>
                ELSE SubSeq(stack, 1, Len(stack) - 2) \o
                     <<[stack[Len(stack) - 1] EXCEPT !.pc = "raise"]>>
    /\ UNCHANGED <<registryVars, plannerVars, componentVars, objs, store, nreq>>

Next ==
    \/ Request
    \/ CheckAggregationQuery
    \/ GetQueryPlan
    \/ StepSkip
    \/ StepHit
    \/ StepFetch
    \/ GetAggregationPlan
    \/ ExecuteGrouping
    \/ ExecuteSummarizing
    \/ ExecuteSynthesis
    \/ Return
    \/ Raise

Spec == Init /\ [][Next]_vars

\* the steps of a call that is running: every oracle call and every retriever call returns
CallStep ==
    \/ CheckAggregationQuery
    \/ GetQueryPlan
    \/ StepSkip
    \/ StepHit
    \/ StepFetch
    \/ GetAggregationPlan
    \/ ExecuteGrouping
    \/ ExecuteSummarizing
    \/ ExecuteSynthesis
    \/ Return
    \/ Raise

\* process_request under the assumption that a running call goes on
FairSpec == Init /\ [][Next]_vars /\ WF_vars(CallStep)

-----------------------------------------------------------------------------
(* WENOKNRetriever.get_dataframe_annotation *)

\* max_tries of both retry loops
max_tries == 5

\* where an attempt of the loop raised, or "ok" when it reached the return
AttemptOutcomes ==
    {"get_candidate_concepts", "sparql_dataframe.get", "df_to_gdf", "create_title", "ok"}

\* an attempt that sends the query of the attempt before when there is one
QueryOfAttempt_replayed(log, synthesized) ==
    IF log # <<>> /\ log[Len(log)].query # 0 THEN log[Len(log)].query ELSE synthesized

\* lines 204-209: the query sent to the endpoint is the one get_candidate_concepts
\* returned in this attempt
QueryOfAttempt(log, synthesized) == synthesized

Result(kind, error) == [kind |-> kind, error |-> error]

\* lines 190-200: use_other_sources decides between the loop and the other method
GetDataframeAnnotation ==
    /\ rpc = "idle"
    /\ \E answer \in {"true", "false", "error"} :
          /\ rpc' = CASE answer = "true" -> "additional"
                      [] answer = "false" -> "loop"
                      [] OTHER -> "done"
          /\ rresult' = IF answer = "error" THEN Result("raise", "use_other_sources")
                        ELSE rresult
    /\ tried' = 0
    /\ retriever' = "WENOKNRetriever"
    /\ UNCHANGED <<rlog, registryVars, plannerVars, executorVars, repositoryVars, serverVars, utilityVars>>

\* a method that goes on to the loop when the code raised
AfterExec_loop_on_raise(out) ==
    IF out \in {"converted_request", "raise"} THEN "refined_loop" ELSE "done"

\* lines 358-366: exec(code, global_vars) is outside the try, so what the code raises
\* leaves the method; the loop is entered only when converted_request was set
AfterExec(out) ==
    IF out = "converted_request" THEN "refined_loop" ELSE "done"

\* lines 224-364 and 386-390: the oracle's code is run; it sets converted_request, or
\* gdf, or neither, or raises: "raise" is the raise statement the prompt prescribes
\* when the data is not in the repository, "query_raise" is get_gdf_from_data_request
\* failing inside the code
GetDataframeAnnotationWithAdditionalSources ==
    /\ rpc = "additional"
    /\ \E out \in {"raise", "query_raise", "converted_request", "gdf", "gdf_raise", "neither"} :
          /\ rpc' = AfterExec(out)
          /\ rresult' = CASE out = "raise" -> Result("raise", "exec")
                          [] out = "query_raise" -> Result("raise", "get_gdf_from_data_request")
                          [] out = "gdf" -> Result("DataFrameAnnotation", "none")
                          [] out = "gdf_raise" -> Result("raise", "create_title")
                          [] out = "neither" -> Result("None", "none")
                          [] OTHER -> rresult
    /\ tried' = 0
    /\ UNCHANGED <<rlog, retriever, registryVars, plannerVars, executorVars, repositoryVars,
                   serverVars, utilityVars>>

\* lines 201-219 and 366-384: one pass of the while loop, and the return None that
\* follows the pass that used up the tries
Try ==
    /\ rpc \in {"loop", "refined_loop"}
    /\ tried < max_tries
    /\ \E out \in AttemptOutcomes :
          LET synthesized == IF out = "get_candidate_concepts" THEN 0 ELSE tried + 1
              query == IF synthesized = 0 THEN 0 ELSE QueryOfAttempt(rlog, synthesized)
          IN /\ rlog' = Append(rlog, [n |-> tried + 1, synthesized |-> synthesized,
                                      query |-> query, out |-> out])
             /\ tried' = IF out = "ok" THEN tried ELSE tried + 1
             /\ rpc' = IF out = "ok" \/ tried + 1 >= max_tries THEN "done" ELSE rpc
             /\ rresult' = IF out = "ok" THEN Result("DataFrameAnnotation", "none")
                           ELSE IF tried + 1 >= max_tries THEN Result("None", "none")
                           ELSE rresult
    /\ UNCHANGED <<retriever, registryVars, plannerVars, executorVars, repositoryVars,
                   serverVars, utilityVars>>

\* what a call of DataCommonsRetriever.get_dataframe_annotation can come to: ndp_search
\* or the language model raises, the code the model wrote raises because the data it
\* needs is not in the repository, the code raises for another reason (Data Commons
\* cannot be reached, a name is not defined), DataFrameAnnotation refuses df or
\* title, or the annotation is returned
DataCommonsOutcomes ==
    {"ndp_search", "invoke", "exec_missing", "exec", "DataFrameAnnotation", "ok"}

\* data_commons_retriever.py lines 134-311: the code is synthesized once and run once,
\* outside any try
DataCommonsGetDataframeAnnotation ==
    /\ rpc = "idle"
    /\ \E out \in DataCommonsOutcomes :
          /\ rlog' = IF out \in {"ndp_search", "invoke"} THEN rlog
                     ELSE Append(rlog, [n |-> 1, synthesized |-> 1, query |-> 1, out |-> out])
          /\ rresult' = IF out = "ok" THEN Result("DataFrameAnnotation", "none")
                        ELSE Result("raise", out)
    /\ rpc' = "done"
    /\ retriever' = "DataCommonsRetriever"
    /\ UNCHANGED <<tried, registryVars, plannerVars, executorVars, repositoryVars,
                   serverVars, utilityVars>>

NextRetriever ==
    \/ GetDataframeAnnotation
    \/ GetDataframeAnnotationWithAdditionalSources
    \/ Try
    \/ DataCommonsGetDataframeAnnotation

SpecRetriever == Init /\ [][NextRetriever]_vars

-----------------------------------------------------------------------------
(* DataRepository: add, remove, eviction *)

\* an eviction that drops the entries as old as age_seconds too
kept_if_newer(st, age_seconds) ==
    SelectSeq(st, LAMBDA id : created_at[id] > now - age_seconds)

\* remove_annotations_older_than, lines 32-35: the entries with created_at >= cutoff_time
kept_annotations(st, age_seconds) ==
    SelectSeq(st, LAMBDA id : created_at[id] >= now - age_seconds)

Op(name, arg, raised) == [name |-> name, arg |-> arg, before |-> store, raised |-> raised]

\* a second passes
Tick ==
    /\ now < MaxTime
    /\ now' = now + 1
    /\ last_op' = NoOp
    /\ UNCHANGED <<objs, store, created_at, stack, nreq, registryVars, plannerVars,
                   retrieverVars, serverVars, utilityVars>>

\* DataFrameAnnotation(df, title): ValueError, or a new annotation stamped with the time
Construct ==
    /\ Len(objs) < MaxAnnotations
    /\ \E df \in DfArguments, title \in TitleArguments :
          IF InitRaises(df, title)
          THEN /\ last_op' = Op("DataFrameAnnotation", title, TRUE)
               /\ UNCHANGED <<objs, created_at>>
          ELSE /\ objs' = Append(objs, [NewAnnotation(FALSE) EXCEPT !.title = title])
               /\ created_at' = Append(created_at, now)
               /\ last_op' = Op("DataFrameAnnotation", title, FALSE)
    /\ UNCHANGED <<store, now, stack, nreq, registryVars, plannerVars, retrieverVars,
                   serverVars, utilityVars>>

\* DataRepository.add_dataframe_annotation(df): TypeError for anything but an annotation
AddDataframeAnnotation ==
    /\ \E arg \in {0} \cup { id \in DOMAIN objs : \A k \in DOMAIN store : store[k] # id } :
          IF arg = 0
          THEN /\ last_op' = Op("add_dataframe_annotation", arg, TRUE)
               /\ store' = store
          ELSE /\ last_op' = Op("add_dataframe_annotation", arg, FALSE)
               /\ store' = add_dataframe_annotation(store, arg)
    /\ UNCHANGED <<objs, now, created_at, stack, nreq, registryVars, plannerVars,
                   retrieverVars, serverVars, utilityVars>>

\* DataRepository.remove_dataframe_annotation, lines 72-73: the definition that is in
\* force (it replaces that of lines 24-28) is "pass", whatever the argument
RemoveDataframeAnnotation ==
    /\ \E arg \in 0..MaxAnnotations :
          last_op' = Op("remove_dataframe_annotation", arg, FALSE)
    /\ UNCHANGED <<objs, store, now, created_at, stack, nreq, registryVars, plannerVars,
                   retrieverVars, serverVars, utilityVars>>

\* DataRepository.remove_annotations_older_than(age_seconds)
RemoveAnnotationsOlderThan ==
    /\ \E age_seconds \in 0..MaxTime :
          /\ store' = kept_annotations(store, age_seconds)
          /\ last_op' = Op("remove_annotations_older_than", age_seconds, FALSE)
    /\ UNCHANGED <<objs, now, created_at, stack, nreq, registryVars, plannerVars,
                   retrieverVars, serverVars, utilityVars>>

NextRepository ==
    \/ Tick
    \/ Construct
    \/ AddDataframeAnnotation
    \/ RemoveDataframeAnnotation
    \/ RemoveAnnotationsOlderThan

\* the repository right after DataRepository(llm)
SpecRepository == Init /\ [][NextRepository]_vars

-----------------------------------------------------------------------------
(* server.py: the tools *)

\* a dataset record of the search endpoint: whether it has a WCS resource, a WMS
\* resource, and the keys and types the extraction reads (extras' key and value, a string
\* under notes, tags' name)
Records == [wcs : BOOLEAN, wms : BOOLEAN, keys : BOOLEAN]

RECURSIVE RecordLists(_)
RecordLists(n) ==
    IF n = 0 THEN {<<>>}
    ELSE RecordLists(n - 1) \cup
         { Append(l, r) : l \in { x \in RecordLists(n - 1) : Len(x) = n - 1 }, r \in Records }

\* results[:top_k]
FirstK(records, top_k) ==
    SubSeq(records, 1, IF top_k < Len(records) THEN top_k ELSE Len(records))

\* lines 66-100, for one record: skipped without a WCS resource (line 82); otherwise the
\* extraction raises KeyError or TypeError on a missing key, and AttributeError at
\* wms_resource.get when there is no WMS resource (lines 91-92)
ExtractionRaises(pkg) == pkg.wcs /\ (~pkg.keys \/ ~pkg.wms)

ToolResult(kind, success, payload, error) ==
    [kind |-> kind, success |-> success, payload |-> payload, error |-> error]

\* timeouts a caller may pass, within the documented range
Timeouts == {10, 30, 60, 120}

\* lines 189, 390: timeout=max(timeout, 60)
SentTimeout(timeout) == IF timeout > 60 THEN timeout ELSE 60

\* search_datasets, lines 48-118. response.json() on a body that is not JSON raises an
\* error that is a RequestException in some versions of the requests library and a
\* plain ValueError in others.
SearchDatasets ==
    /\ \E response \in {"transport_failure", "http_error", "invalid_json", "non_list", "list"},
          records \in RecordLists(MaxRecords), top_k \in 0..MaxRecords,
          json_error_caught \in BOOLEAN :
          /\ response # "list" => (records = <<>> /\ top_k = 0)
          /\ (response # "invalid_json") => json_error_caught
          /\ tool_call' = [NoCall EXCEPT !.tool = "search_datasets", !.response = response,
                                         !.records = records, !.top_k = top_k]
          /\ tool_result' =
                CASE response \in {"transport_failure", "http_error"} ->
                        ToolResult("dict", "false", FALSE, TRUE)
                  [] response = "invalid_json" ->
                        IF json_error_caught THEN ToolResult("dict", "false", FALSE, TRUE)
                        ELSE ToolResult("raise", "absent", FALSE, FALSE)
                  [] response = "non_list" -> ToolResult("dict", "false", FALSE, TRUE)
                  [] OTHER ->
                        IF \E k \in DOMAIN FirstK(records, top_k) :
                              ExtractionRaises(FirstK(records, top_k)[k])
                        THEN ToolResult("raise", "absent", FALSE, FALSE)
                        ELSE ToolResult("dict", "true", TRUE, FALSE)
    /\ UNCHANGED <<registryVars, plannerVars, executorVars, retrieverVars, repositoryVars,
                   utilityVars>>

\* the bodies the statistics endpoint may send with a success status: its documented
\* format (succeeded or failed), another JSON object, JSON that is no object
Bodies == {"success_true", "success_false", "other_object", "not_object"}

\* lines 188-197 and 389-398: the body is returned as it came
PostToEndpoint(tool) ==
    \E response \in {"transport_failure", "http_error", "invalid_json"} \cup Bodies,
       timeout \in Timeouts, json_error_caught \in BOOLEAN :
       /\ (response # "invalid_json") => json_error_caught
       /\ tool_call' = [NoCall EXCEPT !.tool = tool, !.response = response,
                                      !.timeout = timeout,
                                      !.sent_timeout = SentTimeout(timeout)]
       /\ tool_result' =
             CASE response \in {"transport_failure", "http_error"} ->
                     ToolResult("dict", "false", FALSE, TRUE)
               [] response = "invalid_json" ->
                     IF json_error_caught THEN ToolResult("dict", "false", FALSE, TRUE)
                     ELSE ToolResult("raise", "absent", FALSE, FALSE)
               [] response = "success_true" -> ToolResult("dict", "true", TRUE, FALSE)
               [] response = "success_false" -> ToolResult("dict", "false", FALSE, TRUE)
               [] response = "other_object" -> ToolResult("dict", "absent", FALSE, FALSE)
               [] OTHER -> ToolResult("value", "absent", FALSE, FALSE)

\* compute_zonal_stats, lines 175-197
ComputeZonalStats ==
    /\ PostToEndpoint("compute_zonal_stats")
    /\ UNCHANGED <<registryVars, plannerVars, executorVars, retrieverVars, repositoryVars,
                   utilityVars>>

\* zonal_count, lines 376-398
ZonalCount ==
    /\ PostToEndpoint("zonal_count")
    /\ UNCHANGED <<registryVars, plannerVars, executorVars, retrieverVars, repositoryVars,
                   utilityVars>>

NextServer ==
    \/ SearchDatasets
    \/ ComputeZonalStats
    \/ ZonalCount

SpecServer == Init /\ [][NextServer]_vars

-----------------------------------------------------------------------------
(* df_utils: the two collapse functions *)

\* remove_consecutive_system_objects, lines 60-73: the for loop from step i on, with the
\* local lists result and temp_group; lines 75-78 after the last step
RECURSIVE RemoveLoop(_, _, _, _, _)
RemoveLoop(json_list, data_source, i, result, temp_group) ==
    IF i > Len(json_list) THEN result \o temp_group
    ELSE LET obj == json_list[i]
             group == Append(temp_group, obj)
         IN IF obj.data_source = data_source
            THEN IF obj.origin = "User"
                 THEN IF Len(group) > 1
                         /\ \A k \in 1..(Len(group) - 1) : group[k].origin = "System"
                      THEN RemoveLoop(json_list, data_source, i + 1,
                                      result \o SelectSeq(group, LAMBDA item :
                                                              item.origin # "System"),
                                      <<>>)
                      ELSE RemoveLoop(json_list, data_source, i + 1, result \o group, <<>>)
                 ELSE RemoveLoop(json_list, data_source, i + 1, result, group)
            ELSE RemoveLoop(json_list, data_source, i + 1,
                            (result \o temp_group) \o <<obj>>, <<>>)

remove_consecutive_system_objects(json_list, data_source) ==
    RemoveLoop(json_list, data_source, 1, <<>>, <<>>)

\* find_and_remove_consecutive(data, data_source), then the same call on its result, and
\* the call get_request_plan's loop makes next, for another retriever's name
FindAndRemoveConsecutive ==
    /\ ~collapse.called
    /\ \E data \in PlansUpTo(MaxRawPlanLen, DataSources), data_source \in DataSources,
          next_source \in DataSources :
          LET result == find_and_remove_consecutive(data, data_source)
          IN collapse' = [called |-> TRUE, data |-> data, data_source |-> data_source,
                          result |-> result,
                          again |-> find_and_remove_consecutive(result, data_source),
                          next_source |-> next_source,
                          next_result |-> find_and_remove_consecutive(result, next_source)]
    /\ UNCHANGED <<unwrap, registryVars, plannerVars, executorVars, retrieverVars,
                   repositoryVars, serverVars>>

NextCollapse == FindAndRemoveConsecutive

SpecCollapse == Init /\ [][NextCollapse]_vars

-----------------------------------------------------------------------------
(* The unwrapping of the language model's output: a text is the sequence of its
   characters *)

\* the grave accent, which a string of this language cannot hold
Backtick == "grave"

Fence == <<Backtick, Backtick, Backtick>>

Quote == <<"\"">>

Sparql == <<"s", "p", "a", "r", "q", "l">>

Code == <<"c", "o", "d", "e">>

Python == <<"p", "y", "t", "h", "o", "n">>

Json == <<"j", "s", "o", "n">>

Whitespace == {" ", "\n"}

\* the longest text between the decorations of an input
MaxBodyLen == 2

BodyChars == {"x", " "}

Bodies_of_text == UNION { [1..n -> BodyChars] : n \in 0..MaxBodyLen }

\* the outputs tried: an optional quote, an optional opening fence with an optional
\* tag, a body, an optional closing fence, an optional quote
Texts ==
    { (((pre \o open) \o tag) \o body) \o (close \o post) :
        pre \in {<<>>, Quote}, open \in {<<>>, Fence},
        tag \in {<<>>, Sparql, Code, Python, Json},
        body \in Bodies_of_text, close \in {<<>>, Fence}, post \in {<<>>, Quote} }

\* str.startswith and str.endswith
StartsWith(data, prefix) ==
    Len(data) >= Len(prefix) /\ SubSeq(data, 1, Len(prefix)) = prefix

EndsWith(data, suffix) ==
    Len(data) >= Len(suffix) /\ SubSeq(data, Len(data) - Len(suffix) + 1, Len(data)) = suffix

\* str.find(sub, start): the lowest 0-based index at or after start where sub occurs,
\* -1 when there is none
Find(data, sub, start) ==
    LET hits == { i \in start..(Len(data) - Len(sub)) :
                    SubSeq(data, i + 1, i + Len(sub)) = sub }
    IN IF hits = {} THEN -1 ELSE CHOOSE i \in hits : \A j \in hits : i <= j

\* data[start:end] for a start >= 0: a negative end counts from the end of the text
Slice(data, start, end) ==
    LET stop == IF end < 0 THEN (IF Len(data) + end < 0 THEN 0 ELSE Len(data) + end)
                ELSE IF end > Len(data) THEN Len(data) ELSE end
    IN IF start >= stop THEN <<>> ELSE SubSeq(data, start + 1, stop)

\* str.strip()
Strip(data) ==
    LET kept == { i \in DOMAIN data : data[i] \notin Whitespace }
    IN IF kept = {} THEN <<>>
       ELSE SubSeq(data, CHOOSE i \in kept : \A j \in kept : i <= j,
                         CHOOSE i \in kept : \A j \in kept : i >= j)

\* the three lines every fence branch has: the text from the end of the first
\* occurrence of opening to the next fence, stripped
AfterOpening(data, opening) ==
    LET start_index == Find(data, opening, 0) + Len(opening)
        end_index == Find(data, Fence, start_index)
    IN Strip(Slice(data, start_index, end_index))

\* string_utils.py lines 2-20
strip_sparql_decoartion(data) ==
    IF StartsWith(data, (Quote \o Fence) \o Sparql) THEN AfterOpening(data, Fence \o Sparql)
    ELSE IF StartsWith(data, (Quote \o Fence) \o Code) THEN AfterOpening(data, Fence \o Code)
    ELSE IF StartsWith(data, Quote \o Fence) THEN AfterOpening(data, Fence)
    ELSE IF StartsWith(data, Quote) /\ EndsWith(data, Quote) THEN Slice(data, 1, -1)
    ELSE data

\* data_system.py lines 697-706, on the output of get_code_for_aggregation_request
execute_aggregation_plan_code(output) ==
    LET code == Strip(output)
    IN IF StartsWith(code, Fence \o Python) THEN AfterOpening(code, Fence \o Python)
       ELSE IF StartsWith(code, Fence) THEN AfterOpening(code, Fence)
       ELSE code

StripSparqlDecoartion ==
    /\ ~unwrap.called
    /\ \E data \in Texts :
          unwrap' = [called |-> TRUE, by |-> "strip_sparql_decoartion", data |-> data,
                     result |-> strip_sparql_decoartion(data)]
    /\ UNCHANGED <<collapse, registryVars, plannerVars, executorVars, retrieverVars,
                   repositoryVars, serverVars>>

ExecuteAggregationPlanCode ==
    /\ ~unwrap.called
    /\ \E data \in Texts :
          unwrap' = [called |-> TRUE, by |-> "execute_aggregation_plan", data |-> data,
                     result |-> execute_aggregation_plan_code(data)]
    /\ UNCHANGED <<collapse, registryVars, plannerVars, executorVars, retrieverVars,
                   repositoryVars, serverVars>>

NextUnwrap ==
    \/ StripSparqlDecoartion
    \/ ExecuteAggregationPlanCode

SpecUnwrap == Init /\ [][NextUnwrap]_vars

-----------------------------------------------------------------------------
(* Reading the frames *)

Range(s) == { s[k] : k \in DOMAIN s }

Last(s) == s[Len(s)]

Active == stack # <<>>

\* the results a frame's retriever calls returned (an empty table included), in step order
Fetched(f) ==
    LET sel == SelectSeq(f.log, LAMBDA e : e.kind = "fetch" /\ e.res # 0)
    IN [k \in 1..Len(sel) |-> sel[k].res]

\* those of them whose table is not empty
FetchedNonEmpty(f) ==
    LET sel == SelectSeq(f.log, LAMBDA e : e.kind = "fetch" /\ e.res # 0 /\ ~objs[e.res].empty)
    IN [k \in 1..Len(sel) |-> sel[k].res]

\* the retriever of a step failed: it raised, returned None or returned an empty table
FailedFetch(e) == e.kind = "fetch" /\ e.out \in {"raise", "none", "empty"}

\* the steps of a frame that reached a dataframe retriever's branch
Dispatched(f) ==
    LET sel == SelectSeq(f.log, LAMBDA e : e.kind \in {"hit", "fetch"})
    IN [k \in 1..Len(sel) |-> f.plan[sel[k].i]]

Linear(f) == f.kind = "linear"

Aggregation(f) == f.kind = "aggregation"

\* position of the first log entry of that kind, 0 if there is none
FirstOf(f, kind) ==
    IF \E k \in DOMAIN f.log : f.log[k].kind = kind
    THEN SetMin({ k \in DOMAIN f.log : f.log[k].kind = kind })
    ELSE 0

-----------------------------------------------------------------------------
(* C1: get_request_plan *)

\* C1 as stated: the plan get_request_plan returns has no two adjacent steps with the
\* same data_source, unless that data_source is "System".
C1_NoAdjacentSameSource ==
    ppc = "returned" =>
        \A i \in 1..(Len(json_result) - 1) :
            json_result[i].data_source = json_result[i + 1].data_source
                => json_result[i].data_source = "System"

\* C1, amended: the plan get_request_plan returns has no System-origin step of a
\* join-compatible dataframe retriever that is immediately followed by a step on the
\* same data_source.
C1_NoRedundantSystemStep ==
    ppc = "returned" =>
        \A i \in 1..(Len(json_result) - 1) :
            ~ /\ json_result[i].data_source \in JoinCompatibleNames(dataframe_retrievers)
              /\ json_result[i].origin = "System"
              /\ json_result[i + 1].data_source = json_result[i].data_source

\* the collapse deleted two steps of a three-step plan
C1_Witness ==
    /\ ppc = "returned"
    /\ Len(oracle_plan) = 3
    /\ Len(json_result) = 1

-----------------------------------------------------------------------------
(* C2: cache hits *)

\* the step just taken was a cache hit of the running call
C2_HitStep ==
    /\ Active
    /\ Len(stack') = Len(stack)
    /\ Len(stack'[Len(stack)].log) = Len(Top.log) + 1
    /\ Last(stack'[Len(stack)].log).kind = "hit"

\* a linear call about to return, every step of whose non-empty plan was a cache hit
C2_AllHits ==
    /\ Active
    /\ Linear(Top)
    /\ Top.pc = "return"
    /\ Len(Top.plan) >= 1
    /\ Len(Top.log) = Len(Top.plan)
    /\ \A k \in DOMAIN Top.log : Top.log[k].kind = "hit"

\* C2: a step that hits the cache creates no annotation (the retriever is not invoked)
\* and adds nothing to the repository; a call all of whose steps hit the cache returns an
\* entry of the repository and leaves the repository as it was at the call.
C2_CacheHitReuses ==
    /\ [](C2_AllHits => /\ Top.dfa \in Range(store)
                        /\ store = Top.store0)
    /\ [][C2_HitStep => (store' = store /\ objs' = objs)]_vars

\* the second top-level call returns after two cache hits
C2_Witness ==
    /\ C2_AllHits
    /\ nreq = 2
    /\ Len(Top.plan) = 2
    /\ store # <<>>

-----------------------------------------------------------------------------
(* C3: fetched results are added *)

\* C3 as stated: every result a retriever returned during a linear plan is in the
\* repository, once, behind the entries present at the call, in step order.
C3_EveryFetchedAdded ==
    (Active /\ Linear(Top)) => store = Top.store0 \o Fetched(Top)

\* C3, amended: every non-empty result a retriever returned during a linear plan is in
\* the repository, once, behind the entries present at the call, in step order, as soon
\* as the step is over (an empty result is not added).
C3_EveryNonEmptyFetchedAdded ==
    (Active /\ Linear(Top)) => store = Top.store0 \o FetchedNonEmpty(Top)

\* two results fetched by one call, the first a System-origin intermediate, behind an
\* entry of an earlier call
C3_Witness ==
    /\ Active
    /\ Linear(Top)
    /\ Top.store0 # <<>>
    /\ Len(FetchedNonEmpty(Top)) = 2
    /\ objs[FetchedNonEmpty(Top)[1]].creator = "System"

-----------------------------------------------------------------------------
(* C4: creators *)

\* C4 as stated: when a linear plan has run, the result of every step but the last has
\* creator 'System' and the result of the last step, the value returned, has 'User',
\* fetched or reused.
C4_CreatorsByPosition ==
    (Active /\ Linear(Top) /\ Top.pc = "return") =>
        /\ \A k \in DOMAIN Top.log :
              Top.log[k].res # 0 =>
                 objs[Top.log[k].res].creator =
                    IF Top.log[k].i < Len(Top.plan) THEN "System" ELSE "User"
        /\ Top.dfa # 0 => objs[Top.dfa].creator = "User"

-----------------------------------------------------------------------------
(* C5: an empty result *)

\* C5: when the retriever of a step returns an empty table, process_request raises, the
\* retriever is not invoked again for the step and the result is not in the repository.
C5_EmptyResultIsFatal ==
    (Active /\ Linear(Top)) =>
        \A k \in DOMAIN Top.log :
            (Top.log[k].kind = "fetch" /\ Top.log[k].out = "empty") =>
                /\ Top.pc = "raise"
                /\ k = Len(Top.log)
                /\ \A j \in DOMAIN Top.log : j # k => Top.log[j].i # Top.log[k].i
                /\ Top.log[k].res \notin Range(store)

\* the second step of a plan returned an empty table
C5_Witness ==
    /\ Active
    /\ Linear(Top)
    /\ Len(Top.log) = 2
    /\ Last(Top.log).kind = "fetch"
    /\ Last(Top.log).out = "empty"
    /\ Top.pc = "raise"

-----------------------------------------------------------------------------
(* C6: a failing step *)

\* C6: when the retriever of step i fails, the call raises (no later step is dispatched,
\* nothing is returned) and the repository is what it was at the call followed by the
\* results fetched by the steps before i, in step order.
C6_FailureAborts ==
    (Active /\ Linear(Top)) =>
        \A k \in DOMAIN Top.log :
            FailedFetch(Top.log[k]) =>
                /\ Top.pc = "raise"
                /\ k = Len(Top.log)
                /\ \A j \in 1..(k - 1) : Top.log[j].i < Top.log[k].i
                /\ store = Top.store0 \o Fetched([Top EXCEPT !.log = SubSeq(@, 1, k - 1)])

\* a first step fetched a result and the second step's retriever failed
C6_Witness ==
    /\ Active
    /\ Linear(Top)
    /\ Top.pc = "raise"
    /\ Len(Top.log) = 2
    /\ Top.log[1].kind = "fetch"
    /\ FailedFetch(Top.log[2])
    /\ Top.store0 # <<>>
    /\ Len(store) = Len(Top.store0) + 1

-----------------------------------------------------------------------------
(* C7: the value returned *)

\* C7 as stated: the value a linear call returns is the result produced by the last step
\* of its plan, whatever the plan.
C7_ReturnsLastStepResult ==
    (Active /\ Linear(Top) /\ Top.pc = "return") =>
        /\ Top.log # <<>>
        /\ Last(Top.log).i = Len(Top.plan)
        /\ Last(Top.log).res # 0
        /\ Top.dfa = Last(Top.log).res

-----------------------------------------------------------------------------
(* C8: the order of the aggregation plan *)

\* C8: in every aggregation call, the summarizing sub-request is dispatched only after
\* the grouping sub-request was dispatched and returned a result, its text is
\* query_plan[1]'s request with the bounding box of that result, the synthesis runs only
\* after both sub-requests returned, and a sub-request that is running is the one dispatched.
C8_AggregationOrder ==
    \A d \in DOMAIN stack :
        LET f == stack[d]
            g == FirstOf(f, "grouping")
            sm == FirstOf(f, "summarizing")
            sy == FirstOf(f, "synthesis")
        IN Aggregation(f) =>
            /\ f.pc = "wait_grouping" =>
                  /\ g # 0 /\ sm = 0 /\ sy = 0
                  /\ d < Len(stack)
                  /\ stack[d + 1].request = f.aggregation_plan[1].request
            /\ sm # 0 =>
                  /\ g # 0 /\ g < sm
                  /\ f.grouping_adf # 0
                  /\ f.log[sm].arg = [base |-> f.aggregation_plan[2].request.base,
                                      bbox |-> f.grouping_adf]
            /\ f.pc = "wait_summarizing" =>
                  /\ sm # 0 /\ sy = 0
                  /\ d < Len(stack)
                  /\ stack[d + 1].request = f.log[sm].arg
            /\ sy # 0 =>
                  /\ sm # 0 /\ sm < sy
                  /\ f.grouping_adf # 0
                  /\ f.summarizing_adf # 0
            /\ f.grouping_adf = 0 => sm = 0

\* the summarizing sub-request is running, scoped by the grouping result
C8_Witness ==
    /\ Len(stack) = 2
    /\ stack[1].pc = "wait_summarizing"
    /\ stack[1].grouping_adf # 0
    /\ stack[2].request.bbox = stack[1].grouping_adf
    /\ stack[2].pc = "loop"

-----------------------------------------------------------------------------
(* C9: the aggregation result *)

\* C9: when an aggregation call returns, the value returned is the last entry of the
\* repository, is in it once, was not in it at the call, and has creator 'User'.
C9_AggregationResultAdded ==
    (Active /\ Aggregation(Top) /\ Top.pc = "return") =>
        /\ Top.dfa # 0
        /\ store # <<>>
        /\ Last(store) = Top.dfa
        /\ Cardinality({ k \in DOMAIN store : store[k] = Top.dfa }) = 1
        /\ Top.dfa \notin Range(Top.store0)
        /\ objs[Top.dfa].creator = "User"

\* an aggregation call returns its result, behind the results of its two sub-requests
C9_Witness ==
    /\ Active
    /\ Aggregation(Top)
    /\ Top.pc = "return"
    /\ Len(store) >= 3

-----------------------------------------------------------------------------
(* C10: the plan that is dispatched *)

\* C10 as stated: the steps a linear call dispatches are those of the planner's plan
\* after the collapse pass: no System-origin step that the collapse deletes is dispatched.
C10_DispatchesCollapsedPlan ==
    (Active /\ Linear(Top)) =>
        \A k \in DOMAIN Top.log :
            Top.log[k].kind \in {"hit", "fetch"} =>
                \E j \in DOMAIN GetRequestPlanResult(Top.plan, dataframe_retrievers) :
                    GetRequestPlanResult(Top.plan, dataframe_retrievers)[j]
                        = Top.plan[Top.log[k].i]

-----------------------------------------------------------------------------
(* C11: termination *)

\* the call at nesting depth d has completed (it returns) or failed (it raises)
Terminal(d) == Len(stack) >= d /\ stack[d].pc \in {"return", "raise"}

\* C11: every process_request call, the nested calls of the aggregation path included,
\* eventually returns a result or raises, and then leaves the call chain.
C11_EveryCallTerminates ==
    /\ \A d \in 1..MaxDepth : (Len(stack) >= d) ~> Terminal(d)
    /\ \A d \in 1..MaxDepth : Terminal(d) ~> (Len(stack) < d)

\* the summarizing sub-request of an aggregation call has failed
C11_Witness ==
    /\ Len(stack) = 2
    /\ stack[1].pc = "wait_summarizing"
    /\ Terminal(2)
    /\ Top.pc = "raise"

-----------------------------------------------------------------------------
(* C12, C13: the retry loop of WENOKNRetriever *)

\* C12: a call makes at most 5 attempts; the query an attempt sends is the one
\* get_candidate_concepts returned in that attempt, never the query of an earlier
\* attempt; a successful attempt is the last one and the call returns its result.
C12_AtMostFiveFreshAttempts ==
    /\ Len(rlog) <= 5
    /\ \A k \in DOMAIN rlog :
          /\ rlog[k].n = k
          /\ rlog[k].out # "get_candidate_concepts" => rlog[k].synthesized # 0
          /\ rlog[k].query = rlog[k].synthesized
          /\ \A j \in 1..(k - 1) : rlog[k].query # 0 => rlog[j].query # rlog[k].query
          /\ rlog[k].out = "ok" =>
                /\ k = Len(rlog)
                /\ rpc = "done"
                /\ rresult.kind = "DataFrameAnnotation"

\* the third attempt succeeded after two attempts whose queries failed at the endpoint
C12_Witness ==
    /\ rpc = "done"
    /\ Len(rlog) = 3
    /\ rlog[1].out = "sparql_dataframe.get"
    /\ rlog[2].out = "sparql_dataframe.get"
    /\ rlog[3].out = "ok"

\* C13 as stated: when all 5 attempts have failed, the call raises an error that
\* carries the error of the last attempt and returns no value.
C13_ExhaustionRaises ==
    (rpc = "done" /\ Len(rlog) = 5 /\ rlog[5].out # "ok") =>
        /\ rresult.kind = "raise"
        /\ rresult.error = rlog[5].out

-----------------------------------------------------------------------------
(* C14: insertion order *)

\* C14: no step of a process_request call removes or moves an entry of the repository:
\* after every step each index denotes the entry it denoted before, and an entry that
\* is added is the last one.
C14_InsertionOrderKept ==
    [][/\ Len(store') >= Len(store)
       /\ Len(store') <= Len(store) + 1
       /\ SubSeq(store', 1, Len(store)) = store
       /\ Len(store') = Len(store) + 1 =>
             /\ store'[Len(store')] = Len(objs')
             /\ store'[Len(store')] \notin Range(store)]_vars

\* a call has added two entries behind the two of an earlier call
C14_Witness ==
    /\ Active
    /\ Len(Top.store0) = 2
    /\ Len(store) = 4
    /\ SubSeq(store, 1, 2) = Top.store0

-----------------------------------------------------------------------------
(* C15, C16: removing entries *)

\* position of an entry in a list of distinct entries
PositionIn(st, id) == CHOOSE k \in DOMAIN st : st[k] = id

\* C15: after remove_annotations_older_than(age) the repository holds exactly the
\* entries it held whose age (now minus created_at) does not exceed age, an entry as
\* old as age included, in the order they were in.
C15_EvictsExactlyOlder ==
    last_op.name = "remove_annotations_older_than" =>
        /\ ~last_op.raised
        /\ Range(store) = { id \in Range(last_op.before) :
                               ~(now - created_at[id] > last_op.arg) }
        /\ Len(store) = Cardinality(Range(store))
        /\ \A i, j \in DOMAIN store :
              i < j => PositionIn(last_op.before, store[i]) < PositionIn(last_op.before, store[j])

\* an eviction removed the middle one of three entries and kept one as old as the threshold
C15_Witness ==
    /\ last_op.name = "remove_annotations_older_than"
    /\ Len(last_op.before) = 3
    /\ store = <<last_op.before[1], last_op.before[3]>>
    /\ \E k \in DOMAIN store : now - created_at[store[k]] = last_op.arg

\* C16 as stated: remove_dataframe_annotation(i) with a valid index removes the entry at
\* index i and keeps the others in order; with an index out of range it raises IndexError
\* and leaves the repository as it was.
C16_RemovesEntryAtIndex ==
    last_op.name = "remove_dataframe_annotation" =>
        IF last_op.arg < Len(last_op.before)
        THEN /\ ~last_op.raised
             /\ store = RemoveAt(last_op.before, last_op.arg + 1)
        ELSE /\ last_op.raised
             /\ store = last_op.before

-----------------------------------------------------------------------------
(* C17: the shape of the aggregation plan *)

\* C17 as stated: an aggregation plan that execute_aggregation_plan has begun to act on
\* (its grouping sub-request was dispatched) has exactly 3 steps, the third on "System".
C17_PlanHasThreeSteps ==
    \A d \in DOMAIN stack :
        (Aggregation(stack[d]) /\ FirstOf(stack[d], "grouping") # 0) =>
            /\ Len(stack[d].aggregation_plan) = 3
            /\ stack[d].aggregation_plan[3].data_source = "System"

-----------------------------------------------------------------------------
(* C18: titles *)

\* C18: every annotation that exists, in the repository or not, has a non-empty title:
\* DataFrameAnnotation creates nothing when the title is empty or missing, and the title
\* execute_aggregation_plan writes on the summarizing result is not empty.
C18_TitleNonEmpty ==
    /\ \A id \in DOMAIN objs : objs[id].title \notin {"", "None"}
    /\ \A k \in DOMAIN store : store[k] \in DOMAIN objs

\* an aggregation call returns after it rewrote the title of its summarizing result,
\* which is in the repository
C18_Witness ==
    /\ Active
    /\ Aggregation(Top)
    /\ Top.pc = "return"
    /\ Top.summarizing_adf \in Range(store)
    /\ objs[Top.summarizing_adf].title = " intersects with the bounding box of "

-----------------------------------------------------------------------------
(* C19: the tools of server.py *)

\* C19 as stated: whatever the endpoint answers, search_datasets, compute_zonal_stats and
\* zonal_count return a dictionary with a success flag and a result payload or an error
\* message; they do not raise. Stated for the responses the claim lists.
C19_ToolsNeverRaise ==
    (tool_call.tool # "none"
        /\ tool_call.response \in {"transport_failure", "http_error", "non_list", "list"}) =>
        /\ tool_result.kind = "dict"
        /\ tool_result.success \in {"true", "false"}
        /\ tool_result.payload \/ tool_result.error

-----------------------------------------------------------------------------
(* C20: the text semantic-find is asked about *)

\* C20 as stated: on a cache hit the entry reused is the one at the index that
\* get_dataframe_annotation answers when asked about the step's own request text, the
\* text that contain_dataframe_annotation was asked about.
C20_FindAskedAboutStepText ==
    (Active /\ Linear(Top)) =>
        \A k \in DOMAIN Top.log :
            Top.log[k].kind = "hit" =>
                /\ Top.log[k].findArg = Top.log[k].arg
                /\ Top.log[k].res = ListItem(store, Top.log[k].ans)

-----------------------------------------------------------------------------
(* C21: the index of a cache hit *)

\* C21 as stated: a cache hit takes an entry of the repository as the step's result only
\* at an index i with 0 <= i < len(store) that semantic-find answered; when it answers
\* -1 (not found), no entry is taken.
C21_HitOnlyAtValidIndex ==
    (Active /\ Linear(Top)) =>
        \A k \in DOMAIN Top.log :
            (Top.log[k].kind = "hit" /\ Top.log[k].res # 0) =>
                /\ Top.log[k].ans.numeric
                /\ Top.log[k].ans.value >= 0
                /\ Top.log[k].ans.value < Len(store)
                /\ store[Top.log[k].ans.value + 1] = Top.log[k].res

-----------------------------------------------------------------------------
(* C22 - C24: find_and_remove_consecutive *)

\* the positions of data that are missing from the result (request k is at position k)
Deleted(data, result) ==
    { i \in DOMAIN data : \A j \in DOMAIN result : result[j].request # data[i].request }

\* the last position of the run of consecutive steps on data_source that position i is in
RunEnd(data, data_source, i) ==
    CHOOSE e \in i..Len(data) :
        /\ \A k \in i..e : data[k].data_source = data_source
        /\ e = Len(data) \/ data[e + 1].data_source # data_source

\* the pattern the collapse removes, for one source
HasPattern(plan, data_source) ==
    \E i \in 1..(Len(plan) - 1) :
        /\ plan[i].data_source = data_source
        /\ plan[i].origin = "System"
        /\ plan[i + 1].data_source = data_source

\* C22 as stated: find_and_remove_consecutive deletes only System-origin steps on d that
\* are in a run of steps on d whose last step is User-origin, and its result is that of
\* remove_consecutive_system_objects.
C22_DeletesOnlyInRunsEndingInUser ==
    collapse.called =>
        /\ \A i \in Deleted(collapse.data, collapse.result) :
              /\ collapse.data[i].origin = "System"
              /\ collapse.data[i].data_source = collapse.data_source
              /\ collapse.data[RunEnd(collapse.data, collapse.data_source, i)].origin = "User"
        /\ collapse.result = remove_consecutive_system_objects(collapse.data,
                                                               collapse.data_source)

\* C23: find_and_remove_consecutive deletes no User-origin step, no step on another
\* source and not the last step, and returns the other steps as they were, in their order.
C23_KeepsEverythingElse ==
    collapse.called =>
        /\ \A i \in Deleted(collapse.data, collapse.result) :
              /\ collapse.data[i].origin # "User"
              /\ collapse.data[i].data_source = collapse.data_source
              /\ i # Len(collapse.data)
        /\ Len(collapse.result) + Cardinality(Deleted(collapse.data, collapse.result))
              = Len(collapse.data)
        /\ \A j \in DOMAIN collapse.result :
              /\ collapse.result[j].request.base \in DOMAIN collapse.data
              /\ collapse.result[j] = collapse.data[collapse.result[j].request.base]
        /\ \A j, k \in DOMAIN collapse.result :
              j < k => collapse.result[j].request.base < collapse.result[k].request.base

\* two steps of a three-step plan were deleted and the last step kept
C23_Witness ==
    /\ collapse.called
    /\ Len(collapse.data) = 3
    /\ collapse.result = <<collapse.data[3]>>

\* C24: the result of find_and_remove_consecutive has no System-origin step on d followed
\* by a step on d; a second call returns the same plan; and the call for another source
\* that follows in get_request_plan leaves the result free of the pattern for both.
C24_PatternGoneAndStaysGone ==
    collapse.called =>
        /\ ~HasPattern(collapse.result, collapse.data_source)
        /\ collapse.again = collapse.result
        /\ ~HasPattern(collapse.next_result, collapse.next_source)
        /\ ~HasPattern(collapse.next_result, collapse.data_source)

\* the pass for d found nothing to delete, and the pass for another source that follows
\* deleted the step right behind a step on d
C24_Witness ==
    /\ collapse.called
    /\ collapse.data_source # collapse.next_source
    /\ Len(collapse.data) = 3
    /\ collapse.data[1].data_source = collapse.data_source
    /\ Len(collapse.next_result) = 2
    /\ collapse.next_result[1].data_source = collapse.data_source
    /\ Len(collapse.result) = 3

-----------------------------------------------------------------------------
(* C25: the collapse and the registry *)

\* the names of the registered retrievers, of either kind
RegisteredNames ==
    { dataframe_retrievers[k].name : k \in DOMAIN dataframe_retrievers }
        \cup { text_retrievers[k] : k \in DOMAIN text_retrievers }

\* C25 as stated: in the plan get_request_plan returns, no System-origin step is
\* immediately followed by a step on the same source, for every registered source.
C25_CollapsedForEveryRegisteredSource ==
    ppc = "returned" => \A name \in RegisteredNames : ~HasPattern(json_result, name)

-----------------------------------------------------------------------------
(* C26: empty tables *)

\* C26 as stated: no entry of the repository has an empty table.
C26_NoEmptyTableInStore ==
    \A k \in DOMAIN store : ~objs[store[k]].empty

-----------------------------------------------------------------------------
(* C27: where a failure crosses the boundary of a retriever *)

\* the call raised because the data the request builds on is not in the repository
MissingPriorData ==
    \/ retriever = "WENOKNRetriever" /\ rresult.error = "exec"
    \/ retriever = "DataCommonsRetriever" /\ rresult.error = "exec_missing"

\* C27 as stated: a failure leaves get_dataframe_annotation of WENOKNRetriever and of
\* DataCommonsRetriever only after 5 attempts have been made, the case of missing
\* prior data excepted.
C27_FailureOnlyAfterFiveAttempts ==
    (rpc = "done" /\ rresult.kind = "raise" /\ ~MissingPriorData) => Len(rlog) = max_tries

-----------------------------------------------------------------------------
(* C28: missing prior data *)

\* C28: when the code of the rewrite raises because the prior data is missing, the
\* call ends at once with that error: the retry loop is not entered, no query has been
\* sent to the endpoint, and the repository is as it was.
C28_MissingPriorDataFailsFast ==
    (retriever = "WENOKNRetriever" /\ rresult = Result("raise", "exec")) =>
        /\ rpc = "done"
        /\ tried = 0
        /\ rlog = <<>>
        /\ store = <<>>

\* the rewrite was asked for and its code raised
C28_Witness ==
    /\ retriever = "WENOKNRetriever"
    /\ rpc = "done"
    /\ rresult = Result("raise", "exec")

-----------------------------------------------------------------------------
(* C29: the unwrapping *)

\* the opening fence an input begins with, the longest of the forms first
OpeningOf(data) ==
    IF StartsWith(data, Fence \o Sparql) THEN Fence \o Sparql
    ELSE IF StartsWith(data, Fence \o Python) THEN Fence \o Python
    ELSE IF StartsWith(data, Fence \o Code) THEN Fence \o Code
    ELSE IF StartsWith(data, Fence) THEN Fence
    ELSE <<>>

\* the input has an opening fence and a closing fence after it
Fenced(data) ==
    OpeningOf(data) # <<>> /\ Find(data, Fence, Len(OpeningOf(data))) >= 0

\* the text strictly between the opening fence and the closing fence
Between(data) ==
    Slice(data, Len(OpeningOf(data)), Find(data, Fence, Len(OpeningOf(data))))

\* the input is wrapped in one layer of double quotes
Quoted(data) ==
    Len(data) >= 2 /\ StartsWith(data, Quote) /\ EndsWith(data, Quote)

\* C29 as stated: for an input that begins with a fence ```sparql, ```code, ```python
\* or ``` the unwrapping returns the text strictly between the opening fence and the
\* closing fence; for an input wrapped in one layer of double quotes, the input
\* without its first and last character; every other input unchanged.
C29_UnwrapsFencesAndQuotes ==
    unwrap.called =>
        /\ Fenced(unwrap.data) => unwrap.result = Between(unwrap.data)
        /\ Quoted(unwrap.data) => unwrap.result = Slice(unwrap.data, 1, -1)
        /\ (OpeningOf(unwrap.data) = <<>> /\ ~Quoted(unwrap.data)) =>
              unwrap.result = unwrap.data

-----------------------------------------------------------------------------
(* C30: the timeout of the outgoing call *)

\* C30 as stated: in compute_zonal_stats and zonal_count the timeout applied to the
\* call to the statistics endpoint never exceeds the timeout the caller supplied.
C30_SentTimeoutWithinCallers ==
    tool_call.tool \in {"compute_zonal_stats", "zonal_count"} =>
        tool_call.sent_timeout <= tool_call.timeout

=============================================================================
